---- MODULE Spec2Model ----
(***************************************************************************)
(* A model of enmime's MIME encoder (encode.go): the transfer-encoding     *)
(* selector, header finalisation, header emission, buffered and streamed   *)
(* content encoding and the recursive multipart composer.                  *)
(*                                                                         *)
(* Bytes are integers 0..255.  Text is a sequence of bytes.                *)
(***************************************************************************)
EXTENDS Integers, Sequences, FiniteSets, TLC

VARIABLES
  selContent,  \* selector spec: the input bytes
  selQuote,    \* selector spec: quoteLineBreaks
  selResult,   \* selector spec: the answer, None before the call
  parts,       \* the part tree: part id -> Part
  parts0,      \* the part tree as constructed (never changes)
  req,         \* the caller's request: entry point and its arguments
  textCte,     \* EncodeCustom's textCte argument of the running call
  useLF,       \* EncodeCustom's useLF argument of the running call
  stack,       \* the EncodeCustom frames, innermost last
  buf,         \* bufio.Writer: bytes buffered
  sink,        \* the io.Writer under the bufio.Writer: bytes received
  werr,        \* bufio.Writer: its sticky error
  result,      \* "none" while running, then "ok" or "err"
  outs,        \* the finished calls: <<[res, bytes]>>
  faults,      \* how many more sink writes or source reads may fail
  failed,      \* a sink write or a source read has failed in the running call
  sinkWrites,  \* number of Write calls made on the sink in the running call
  at,          \* part id -> offsets in the output of the running call
  body         \* part id -> bytes encodeContent accepted in the running call

selVars == <<selContent, selQuote, selResult>>

encVars ==
  <<parts, parts0, req, textCte, useLF, stack, buf, sink, werr, result, outs,
    faults, failed, sinkWrites, at, body>>

vars == <<selVars, encVars>>

(***************************************************************************)
(* Bytes                                                                   *)
(***************************************************************************)
CR == 13
LF == 10
TAB == 9
SP == 32
TILDE == 126

crnl == <<CR, LF>>
nlnl == <<LF, LF>>

(***************************************************************************)
(* type TransferEncoding byte (iota)                                       *)
(***************************************************************************)
Te7Bit == 0
TeQuoted == 1
TeBase64 == 2
TeRaw == 3
TeAuto == 4

b64Percent == 20

None == -1

\* F applied to the value of x, x evaluated once
Strict(x, F(_)) == CHOOSE r \in {F(v) : v \in {x}} : TRUE

(***************************************************************************)
(* selectTransferEncoding                                                  *)
(***************************************************************************)
IsLineBreak(b) == b = LF \/ b = CR

\* the test without its `&& b != '\t'`
IsCounted_CountsTab(b, quoteLineBreaks) ==
  /\ (b < SP \/ TILDE < b)
  /\ ~(~quoteLineBreaks /\ IsLineBreak(b))

\* (b < ' ' || '~' < b) && b != '\t', minus the line breaks skipped by `continue`
IsCounted(b, quoteLineBreaks) ==
  /\ (b < SP \/ TILDE < b) /\ b # TAB
  /\ ~(~quoteLineBreaks /\ IsLineBreak(b))

\* the loop's state: done is the early `return TeBase64` of line 399
scanByte(s, b, quoteLineBreaks, threshold) ==
  IF s.done
  THEN s
  ELSE LET ml == IF IsLineBreak(b) /\ s.maxLineLen < s.lineLen THEN s.lineLen ELSE s.maxLineLen
           ll == IF IsLineBreak(b) THEN 0 ELSE s.lineLen + 1
           bc == IF IsCounted(b, quoteLineBreaks) THEN s.bincount + 1 ELSE s.bincount
       IN  [done |-> IsCounted(b, quoteLineBreaks) /\ bc >= threshold,
            bincount |-> bc, maxLineLen |-> ml, lineLen |-> ll]

\* for _, b := range content[lo..hi], the state threaded left to right
RECURSIVE scanRange(_, _, _, _, _, _)
scanRange(content, quoteLineBreaks, threshold, lo, hi, s) ==
  IF lo > hi THEN s
  ELSE IF lo = hi THEN scanByte(s, content[lo], quoteLineBreaks, threshold)
  ELSE Strict(scanRange(content, quoteLineBreaks, threshold, lo, (lo + hi) \div 2, s),
              LAMBDA left :
                IF left.done THEN left
                ELSE scanRange(content, quoteLineBreaks, threshold,
                               (lo + hi) \div 2 + 1, hi, left))

selectTransferEncoding(content, quoteLineBreaks) ==
  IF Len(content) = 0
  THEN Te7Bit
  ELSE LET threshold == (b64Percent * Len(content)) \div 100
       IN  Strict(scanRange(content, quoteLineBreaks, threshold, 1, Len(content),
                    [done |-> FALSE, bincount |-> 0, maxLineLen |-> 0, lineLen |-> 0]),
             LAMBDA s :
               LET maxLineLen == IF s.maxLineLen < s.lineLen THEN s.lineLen
                                 ELSE s.maxLineLen
               IN  IF s.done THEN TeBase64
                   ELSE IF s.bincount = 0 /\ maxLineLen <= 78 THEN Te7Bit
                   ELSE TeQuoted)

(***************************************************************************)
(* Text constants (header.go and the standard library)                     *)
(***************************************************************************)
\* "Content-Disposition"
hnContentDisposition == <<67, 111, 110, 116, 101, 110, 116, 45, 68, 105, 115, 112, 111, 115, 105, 116, 105, 111, 110>>
\* "Content-Transfer-Encoding"
hnContentEncoding == <<67, 111, 110, 116, 101, 110, 116, 45, 84, 114, 97, 110, 115, 102, 101, 114, 45, 69, 110, 99, 111, 100, 105, 110, 103>>
\* "Content-ID"
hnContentID == <<67, 111, 110, 116, 101, 110, 116, 45, 73, 68>>
\* "Content-Type"
hnContentType == <<67, 111, 110, 116, 101, 110, 116, 45, 84, 121, 112, 101>>
\* "Subject"
hnSubject == <<83, 117, 98, 106, 101, 99, 116>>
\* "base64"
cteBase64 == <<98, 97, 115, 101, 54, 52>>
\* "quoted-printable"
cteQuotedPrintable == <<113, 117, 111, 116, 101, 100, 45, 112, 114, 105, 110, 116, 97, 98, 108, 101>>
\* "utf-8"
utf8 == <<117, 116, 102, 45, 56>>
\* "boundary"
hpBoundary == <<98, 111, 117, 110, 100, 97, 114, 121>>
\* "charset"
hpCharset == <<99, 104, 97, 114, 115, 101, 116>>
\* "filename"
hpFilename == <<102, 105, 108, 101, 110, 97, 109, 101>>
\* "modification-date"
hpModDate == <<109, 111, 100, 105, 102, 105, 99, 97, 116, 105, 111, 110, 45, 100, 97, 116, 101>>
\* "name"
hpName == <<110, 97, 109, 101>>
\* "text/"
ctTextPrefix == <<116, 101, 120, 116, 47>>
\* "multipart/"
ctMultipartPrefix == <<109, 117, 108, 116, 105, 112, 97, 114, 116, 47>>
\* "text/plain"
ctTextPlain == <<116, 101, 120, 116, 47, 112, 108, 97, 105, 110>>
\* "application/octet-stream"
ctOctetStream == <<97, 112, 112, 108, 105, 99, 97, 116, 105, 111, 110, 47, 111, 99, 116, 101, 116, 45, 115, 116, 114, 101, 97, 109>>
\* "multipart/mixed"
ctMultipartMixed == <<109, 117, 108, 116, 105, 112, 97, 114, 116, 47, 109, 105, 120, 101, 100>>
\* "attachment"
cdAttachment == <<97, 116, 116, 97, 99, 104, 109, 101, 110, 116>>
\* "enmime-"
enmimePrefix == <<101, 110, 109, 105, 109, 101, 45>>
\* "=?utf-8?b?"
bEncodingPrefix == <<61, 63, 117, 116, 102, 45, 56, 63, 98, 63>>
\* "=?utf-8?q?"
qEncodingPrefix == <<61, 63, 117, 116, 102, 45, 56, 63, 113, 63>>
\* "?="
encodedWordSuffix == <<63, 61>>
\* "utf-8''"
rfc2231Prefix == <<117, 116, 102, 45, 56, 39, 39>>
\* ()<>@,;:\"/[]?=
tspecials == <<40, 41, 60, 62, 64, 44, 59, 58, 92, 34, 47, 91, 93, 63, 61>>
\* "01 Jan 20 00:00 UTC"
sampleModDate == <<48, 49, 32, 74, 97, 110, 32, 50, 48, 32, 48, 48, 58, 48, 48, 32, 85, 84, 67>>
\* "--"
dashes == <<45, 45>>
Min(a, b) == IF a < b THEN a ELSE b

\* concatenation of ws[lo..hi]
RECURSIVE Flatten(_, _, _)
Flatten(ws, lo, hi) ==
  IF lo > hi THEN <<>>
  ELSE IF lo = hi THEN ws[lo]
  ELSE LET mid == (lo + hi) \div 2
       IN  Flatten(ws, lo, mid) \o Flatten(ws, mid + 1, hi)

Concat(ws) == Flatten(ws, 1, Len(ws))

HasPrefix(s, prefix) ==
  Len(s) >= Len(prefix) /\ SubSeq(s, 1, Len(prefix)) = prefix

\* the bytes of s from the (1-based) index i on
From(s, i) == SubSeq(s, i, Len(s))

ToLower(s) == [i \in 1..Len(s) |-> IF 65 <= s[i] /\ s[i] <= 90 THEN s[i] + 32 ELSE s[i]]

\* "0123456789ABCDEF"[d]
HexDigit(d) == IF d < 10 THEN 48 + d ELSE 55 + d

(***************************************************************************)
(* encoding/base64: StdEncoding                                            *)
(***************************************************************************)
b64Pad == 61

b64Char(s) ==
  IF s < 26 THEN 65 + s
  ELSE IF s < 52 THEN 97 + (s - 26)
  ELSE IF s < 62 THEN 48 + (s - 52)
  ELSE IF s = 62 THEN 43 ELSE 47

EncodedLen(n) == ((n + 2) \div 3) * 4

b64Encode(src) ==
  [j \in 1..EncodedLen(Len(src)) |->
    LET i  == 3 * ((j - 1) \div 4)
        k  == (j - 1) % 4
        b0 == src[i + 1]
        b1 == IF i + 2 <= Len(src) THEN src[i + 2] ELSE 0
        b2 == IF i + 3 <= Len(src) THEN src[i + 3] ELSE 0
    IN  CASE k = 0 -> b64Char(b0 \div 4)
          [] k = 1 -> b64Char((b0 % 4) * 16 + (b1 \div 16))
          [] k = 2 -> IF i + 2 > Len(src) THEN b64Pad
                      ELSE b64Char((b1 % 16) * 4 + (b2 \div 64))
          [] k = 3 -> IF i + 3 > Len(src) THEN b64Pad ELSE b64Char(b2 % 64)]

(***************************************************************************)
(* mime/quotedprintable.Writer (Binary = false).  A writer state is        *)
(*   line  w.line[:w.i], the line being built                              *)
(*   cr    w.cr, the previous byte was a CR whose CRLF is written          *)
(*   ws    the Write calls made on the underlying writer, in order         *)
(***************************************************************************)
lineMaxLen == 76

qpEscape(b) == <<61, HexDigit(b \div 16), HexDigit(b % 16)>>

IsWhitespace(b) == b = SP \/ b = TAB

qpFlush(s) == [s EXCEPT !.ws = Append(@, s.line), !.line = <<>>]

qpInsertCRLF(s) == qpFlush([s EXCEPT !.line = @ \o crnl])

qpInsertSoftLineBreak(s) == qpInsertCRLF([s EXCEPT !.line = @ \o <<61>>])

\* Writer.encode
qpEncodeByte(s, b) ==
  Strict(IF lineMaxLen - 1 - Len(s.line) < 3 THEN qpInsertSoftLineBreak(s) ELSE s,
         LAMBDA t : [t EXCEPT !.line = @ \o qpEscape(b)])

\* Writer.checkLastByte
qpCheckLastByte(s) ==
  IF Len(s.line) > 0 /\ IsWhitespace(s.line[Len(s.line)])
  THEN qpEncodeByte([s EXCEPT !.line = SubSeq(@, 1, Len(@) - 1)], s.line[Len(s.line)])
  ELSE s

\* one turn of the loop of Writer.write
qpWriteByte(s, b) ==
  IF IsLineBreak(b)
  THEN IF s.cr /\ b = LF
       THEN [s EXCEPT !.cr = FALSE]
       ELSE Strict(qpCheckLastByte([s EXCEPT !.cr = (b = CR)]), LAMBDA t : qpInsertCRLF(t))
  ELSE Strict(IF Len(s.line) = lineMaxLen - 1 THEN qpInsertSoftLineBreak(s) ELSE s,
              LAMBDA t : [t EXCEPT !.line = @ \o <<b>>, !.cr = FALSE])

\* one turn of the loop of Writer.Write: bytes written as they are, or encoded
qpByte(s, b) ==
  IF (b >= 33 /\ b <= TILDE /\ b # 61) \/ IsWhitespace(b) \/ IsLineBreak(b)
  THEN qpWriteByte(s, b)
  ELSE qpEncodeByte(s, b)

RECURSIVE qpRange(_, _, _, _)
qpRange(p, lo, hi, s) ==
  IF lo > hi THEN s
  ELSE IF lo = hi THEN qpByte(s, p[lo])
  ELSE Strict(qpRange(p, lo, (lo + hi) \div 2, s),
              LAMBDA left : qpRange(p, (lo + hi) \div 2 + 1, hi, left))

\* qp.Write(p), qp.Close(): the writes on the underlying writer
qpEncode(p) ==
  Strict(qpRange(p, 1, Len(p), [line |-> <<>>, cr |-> FALSE, ws |-> <<>>]),
         LAMBDA s : Strict(qpCheckLastByte(s), LAMBDA t : qpFlush(t).ws))

\* s without the bytes lo..hi that are a CR before an LF
RECURSIVE dropCR(_, _, _)
dropCR(s, lo, hi) ==
  IF lo > hi THEN <<>>
  ELSE IF lo = hi
  THEN IF s[lo] = CR /\ lo < Len(s) /\ s[lo + 1] = LF THEN <<>> ELSE <<s[lo]>>
  ELSE dropCR(s, lo, (lo + hi) \div 2) \o dropCR(s, (lo + hi) \div 2 + 1, hi)

\* bytes.ReplaceAll(s, "\r\n", "\n")
ReplaceCRLF(s) == dropCR(s, 1, Len(s))

(***************************************************************************)
(* mime.BEncoding / mime.QEncoding (one encoded word)                      *)
(***************************************************************************)
BEncode(s) == bEncodingPrefix \o b64Encode(s) \o encodedWordSuffix

qWordByte(b) ==
  IF b = SP THEN <<95>>
  ELSE IF b >= 33 /\ b <= TILDE /\ b # 61 /\ b # 63 /\ b # 95 THEN <<b>>
  ELSE qpEscape(b)

QEncode(s) == qEncodingPrefix \o Concat([i \in 1..Len(s) |-> qWordByte(s[i])]) \o encodedWordSuffix

\* the switch of lines 183-188 and 229-234
encodeWord(v) ==
  Strict(selectTransferEncoding(v, TRUE), LAMBDA te :
    IF te = TeBase64 THEN BEncode(v)
    ELSE IF te = TeQuoted THEN QEncode(v)
    ELSE v)

(***************************************************************************)
(* textproto.MIMEHeader: key -> list of values                             *)
(***************************************************************************)
HeaderSet(h, k, v) == [x \in (DOMAIN h) \cup {k} |-> IF x = k THEN <<v>> ELSE h[x]]

HeaderDel(h, k) == [x \in (DOMAIN h) \ {k} |-> h[x]]

HeaderHas(h, k) == k \in DOMAIN h

\* a < b in byte order
LexLess(a, b) ==
  \/ \E i \in 1..Min(Len(a), Len(b)) :
        /\ a[i] < b[i]
        /\ \A j \in 1..(i - 1) : a[j] = b[j]
  \/ Len(a) < Len(b) /\ SubSeq(b, 1, Len(a)) = a

\* sort.Strings
RECURSIVE SortStrings(_)
SortStrings(S) ==
  IF S = {} THEN <<>>
  ELSE LET m == CHOOSE k \in S : \A o \in S \ {k} : LexLess(k, o)
       IN  <<m>> \o SortStrings(S \ {m})

(***************************************************************************)
(* mime.FormatMediaType                                                    *)
(***************************************************************************)
IsTokenChar(b) == b > SP /\ b < 127 /\ ~(\E i \in 1..Len(tspecials) : tspecials[i] = b)

IsToken(s) == Len(s) > 0 /\ \A i \in 1..Len(s) : IsTokenChar(s[i])

NeedsEncoding(s) == \E i \in 1..Len(s) : (s[i] < SP \/ s[i] > TILDE) /\ s[i] # TAB

\* RFC 2231 percent-encoding of a parameter value
pctByte(b) ==
  IF b <= SP \/ b >= 127 \/ b \in {42, 39, 37} \/ ~IsTokenChar(b)
  THEN <<37, HexDigit(b \div 16), HexDigit(b % 16)>>
  ELSE <<b>>

quoteByte(b) == IF b = 34 \/ b = 92 THEN <<92, b>> ELSE <<b>>

formatParam(attribute, value) ==
  <<59, SP>> \o ToLower(attribute) \o
    (IF NeedsEncoding(value)
     THEN <<42, 61>> \o rfc2231Prefix \o Concat([i \in 1..Len(value) |-> pctByte(value[i])])
     ELSE IF IsToken(value) THEN <<61>> \o value
     ELSE <<61, 34>> \o Concat([i \in 1..Len(value) |-> quoteByte(value[i])]) \o <<34>>)

\* the media type itself, "" when it is not token or token/token
formatType(t) ==
  LET slashes == {i \in 1..Len(t) : t[i] = 47}
  IN  IF slashes = {}
      THEN IF IsToken(t) THEN ToLower(t) ELSE <<>>
      ELSE LET cut == CHOOSE i \in slashes : \A j \in slashes : i <= j
               major == SubSeq(t, 1, cut - 1)
               sub == From(t, cut + 1)
           IN  IF IsToken(major) /\ IsToken(sub) THEN ToLower(t) ELSE <<>>

FormatMediaType(t, param) ==
  Strict(SortStrings(DOMAIN param), LAMBDA attrs :
    Strict(formatType(t), LAMBDA ft :
      IF ft = <<>> \/ \E a \in DOMAIN param : ~IsToken(a)
      THEN <<>>
      ELSE ft \o Concat([i \in 1..Len(attrs) |-> formatParam(attrs[i], param[attrs[i]])])))

\* setParamValue will ignore empty values
setParamValue(p, k, v) ==
  IF v # <<>> THEN [x \in (DOMAIN p) \cup {k} |-> IF x = k THEN v ELSE p[x]] ELSE p

(***************************************************************************)
(* Part (part.go): the fields the encoder reads and writes.                *)
(*   hasReader: ContentReader != nil;  src: the bytes the reader has not   *)
(*   delivered yet;  parser: "nil" (p.parser == nil), "parsed"             *)
(*   (rawContent false) or "raw" (rawContent true);  FileModDate: the      *)
(*   RFC822 text of the time, <<>> for the zero time;  FirstChild and      *)
(*   NextSibling: part ids, 0 for nil.                                     *)
(***************************************************************************)
base64EncodedLineLen == 76
base64DecodedLineLen == (base64EncodedLineLen * 3) \div 4
linesPerChunk == 128
readChunkSize == base64DecodedLineLen * linesPerChunk

\* bufio.NewWriter's buffer size
defaultBufSize == 4096

\* Part.TextContent
TextContent(p) ==
  \/ p.ContentType = <<>>
  \/ HasPrefix(p.ContentType, ctTextPrefix)
  \/ HasPrefix(p.ContentType, ctMultipartPrefix)

\* coding.ToIDHeader
ToIDHeader(v) == <<60>> \o v \o <<62>>

\* stringutil.UUID(p.randSource): a token no other part gets
UUID(id) == <<117, 48 + id>>

\* the transfer encoding of lines 152-165
chooseCte(p, textCteHint) ==
  IF Len(p.Content) > 0
  THEN IF TextContent(p) /\ ~p.hasReader
       THEN IF textCteHint = TeAuto
            THEN selectTransferEncoding(p.Content, FALSE)
            ELSE textCteHint
       ELSE TeBase64
  ELSE Te7Bit

\* the header deleted whatever the parser
clearStaleEncoding_Always(p) ==
  [p EXCEPT !.Header = HeaderDel(@, hnContentEncoding)]

\* lines 146-150
clearStaleEncoding(p) ==
  IF p.parser # "nil" /\ p.parser # "raw"
  THEN [p EXCEPT !.Header = HeaderDel(@, hnContentEncoding)]
  ELSE p

\* lines 166-172
setEncodingHeader(p, cte) ==
  IF Len(p.Content) > 0 /\ cte = TeBase64
  THEN [p EXCEPT !.Header = HeaderSet(@, hnContentEncoding, cteBase64)]
  ELSE IF Len(p.Content) > 0 /\ cte = TeQuoted
  THEN [p EXCEPT !.Header = HeaderSet(@, hnContentEncoding, cteQuotedPrintable)]
  ELSE p

\* the formatted type stored without the `mt != ""` test
setContentType_Unguarded(p, fileName) ==
  IF p.ContentType # <<>>
  THEN LET param == setParamValue(setParamValue(setParamValue(
                      p.ContentTypeParams, hpCharset, p.Charset), hpName, fileName),
                      hpBoundary, p.Boundary)
       IN  Strict(FormatMediaType(p.ContentType, param), LAMBDA mt :
             [p EXCEPT !.ContentType = mt, !.Header = HeaderSet(@, hnContentType, mt)])
  ELSE p

\* lines 189-202
setContentType(p, fileName) ==
  IF p.ContentType # <<>>
  THEN LET param == setParamValue(setParamValue(setParamValue(
                      p.ContentTypeParams, hpCharset, p.Charset), hpName, fileName),
                      hpBoundary, p.Boundary)
       IN  Strict(FormatMediaType(p.ContentType, param), LAMBDA mt :
             LET ct == IF mt # <<>> THEN mt ELSE p.ContentType
             IN  [p EXCEPT !.ContentType = ct, !.Header = HeaderSet(@, hnContentType, ct)])
  ELSE p

\* lines 203-214
setDisposition(p, fileName) ==
  IF p.Disposition # <<>>
  THEN LET param == setParamValue(setParamValue(<<>>, hpFilename, fileName),
                                  hpModDate, p.FileModDate)
       IN  Strict(FormatMediaType(p.Disposition, param), LAMBDA mt :
             LET cd == IF mt # <<>> THEN mt ELSE p.Disposition
             IN  [p EXCEPT !.Disposition = cd,
                           !.Header = HeaderSet(@, hnContentDisposition, cd)])
  ELSE p

\* lines 162-164
defaultCharset(p) ==
  IF Len(p.Content) > 0 /\ TextContent(p) /\ ~p.hasReader /\ p.Charset = <<>>
  THEN [p EXCEPT !.Charset = utf8]
  ELSE p

\* lines 175-178
generateBoundary(p, id) ==
  IF p.FirstChild # 0 /\ p.Boundary = <<>>
  THEN [p EXCEPT !.Boundary = enmimePrefix \o UUID(id)]
  ELSE p

\* lines 179-181
setContentID(p) ==
  IF p.ContentID # <<>>
  THEN [p EXCEPT !.Header = HeaderSet(@, hnContentID, ToIDHeader(p.ContentID))]
  ELSE p

\* lines 182-214
setTypeAndDisposition(p) ==
  Strict(encodeWord(p.FileName), LAMBDA fileName :
    Strict(setContentType(p, fileName), LAMBDA p6 : setDisposition(p6, fileName)))

\* setupMIMEHeaders: the part as it leaves the call, and the returned cte
setupMIMEHeaders(p, textCteHint, id) ==
  Strict(clearStaleEncoding(p), LAMBDA p1 :
    Strict(chooseCte(p1, textCteHint), LAMBDA cte :
      Strict(defaultCharset(p1), LAMBDA p2 :
        Strict(setEncodingHeader(p2, cte), LAMBDA p3 :
          Strict(generateBoundary(p3, id), LAMBDA p4 :
            Strict(setContentID(p4), LAMBDA p5 :
              [part |-> setTypeAndDisposition(p5), cte |-> cte]))))))

(***************************************************************************)
(* encodeHeader                                                            *)
(***************************************************************************)
\* stringutil.Wrap: fold before max columns at the last blank
RECURSIVE wrapFold(_, _, _)
wrapFold(input, max, wrapWithLFOnly) ==
  LET blanks == {i \in 2..Len(input) : IsWhitespace(input[i])}
      before == {i \in blanks : i <= max}
  IN  IF Len(input) < max \/ blanks = {}
      THEN input
      ELSE LET ls == IF before # {}
                     THEN CHOOSE i \in before : \A j \in before : j <= i
                     ELSE CHOOSE i \in blanks : \A j \in blanks : i <= j
           IN  SubSeq(input, 1, ls - 1)
                 \o (IF wrapWithLFOnly THEN <<LF>> ELSE crnl)
                 \o wrapFold(<<SP>> \o From(input, ls + 1), max, wrapWithLFOnly)

Wrap(max, wrapWithLFOnly, strs) == wrapFold(Concat(strs), max, wrapWithLFOnly)

\* lines 228-247: one header value as written
headerLine(k, v, last, wrapWithLFOnly, omitLastNewline) ==
  LET nl == IF omitLastNewline /\ last THEN <<>>
            ELSE IF wrapWithLFOnly THEN <<LF>>
            ELSE crnl
  IN  Strict(Wrap(76, wrapWithLFOnly, <<k, <<58, 95>>, encodeWord(v), nl>>), LAMBDA wb :
        [wb EXCEPT ![Len(k) + 2] = SP])

\* the writes of encodeHeader, in order
encodeHeader(h, wrapWithLFOnly, omitLastNewline) ==
  Strict(SortStrings(DOMAIN h), LAMBDA keys :
    Concat([i \in 1..Len(keys) |->
      [j \in 1..Len(h[keys[i]]) |->
        headerLine(keys[i], h[keys[i]][j],
                   i = Len(keys) /\ j = Len(h[keys[i]]),
                   wrapWithLFOnly, omitLastNewline)]]))

(***************************************************************************)
(* encodeContent (buffered) and encodeContentFromReader (one chunk)        *)
(***************************************************************************)
lineEnd(lf) == IF lf THEN <<LF>> ELSE crnl

\* lines 267-290: the writes of the base64 branch
base64Writes(content, lf) ==
  Strict(b64Encode(content), LAMBDA text :
    [i \in 1..(2 * ((Len(text) + 75) \div 76)) |->
      IF i % 2 = 1
      THEN SubSeq(text, 76 * ((i - 1) \div 2) + 1, Min(76 * ((i + 1) \div 2), Len(text)))
      ELSE lineEnd(lf)])

\* lines 291-312
quotedWrites(content, lf) ==
  IF lf THEN <<ReplaceCRLF(Concat(qpEncode(content)))>> ELSE qpEncode(content)

\* lines 262-316: the writes of encodeContent for a part without a reader
encodeContent(p, cte, lf) ==
  LET c == IF p.parser = "raw" THEN TeRaw ELSE cte
  IN  IF c = TeBase64 THEN base64Writes(p.Content, lf)
      ELSE IF c = TeQuoted THEN quotedWrites(p.Content, lf)
      ELSE <<p.Content>>

\* lines 342-361: the writes for the first n bytes of the chunk
chunkWrites(chunk, lf) ==
  LET lines == (Len(chunk) + base64DecodedLineLen - 1) \div base64DecodedLineLen
  IN  [i \in 1..(2 * lines) |->
        IF i % 2 = 1
        THEN b64Encode(SubSeq(chunk, base64DecodedLineLen * ((i - 1) \div 2) + 1,
                              Min(base64DecodedLineLen * ((i + 1) \div 2), Len(chunk))))
        ELSE lineEnd(lf)]

\* lines 87-95
marker(boundary, lf) ==
  IF lf THEN <<LF>> \o dashes \o boundary
  ELSE LET closing == crnl \o dashes \o boundary \o dashes
       IN  SubSeq(closing, 1, Len(closing) - 2)

\* the closing marker written like the marker before a child
endMarker_WithoutClose(boundary, lf) ==
  IF lf THEN <<LF>> \o dashes \o boundary ELSE crnl \o dashes \o boundary

endMarker(boundary, lf) ==
  IF lf THEN <<LF>> \o dashes \o boundary \o dashes
  ELSE crnl \o dashes \o boundary \o dashes

(***************************************************************************)
(* bufio.Writer over the sink.  A writer state is                          *)
(*   [buf, sink, werr, sinkWrites]  the writer and what the sink received  *)
(*   err     an error was returned to the encoder, which returned          *)
(*   failAt  the sink write (counted from the next one) that fails, 0: none*)
(***************************************************************************)
\* one Write call on the sink
sinkWrite(w, data) ==
  [w EXCEPT !.sinkWrites = @ + 1,
            !.failAt = IF @ > 0 THEN @ - 1 ELSE 0,
            !.sink = IF w.failAt = 1 THEN @ ELSE @ \o data,
            !.werr = (w.failAt = 1)]

\* bufio.Writer.Flush
bufFlush(w) ==
  IF w.werr \/ Len(w.buf) = 0
  THEN w
  ELSE Strict(sinkWrite(w, w.buf), LAMBDA x :
         IF x.werr THEN x ELSE [x EXCEPT !.buf = <<>>])

\* one turn of Write's loop: for len(p) > b.Available() && b.err == nil
bufWriteTurn(s) ==
  LET w == s.w
      avail == defaultBufSize - Len(w.buf)
  IN  IF Len(s.p) > avail /\ ~w.werr
      THEN IF Len(w.buf) = 0
           THEN [w |-> sinkWrite(w, s.p), p |-> <<>>]
           ELSE [w |-> bufFlush([w EXCEPT !.buf = @ \o SubSeq(s.p, 1, avail)]),
                 p |-> From(s.p, avail + 1)]
      ELSE s

\* bufio.Writer.Write, and the caller's `if err != nil { return err }`
bufWrite(w, p) ==
  IF w.err
  THEN w
  ELSE Strict(bufWriteTurn([w |-> w, p |-> p]), LAMBDA s1 :
         Strict(bufWriteTurn(s1), LAMBDA s2 :
           Strict(bufWriteTurn(s2), LAMBDA s :
             IF s.w.werr
             THEN [s.w EXCEPT !.err = TRUE]
             ELSE [s.w EXCEPT !.buf = @ \o s.p])))

\* the writes ws[lo..hi] in order, stopping at the first error
RECURSIVE writeRange(_, _, _, _)
writeRange(w, ws, lo, hi) ==
  IF lo > hi THEN w
  ELSE IF lo = hi THEN bufWrite(w, ws[lo])
  ELSE Strict(writeRange(w, ws, lo, (lo + hi) \div 2), LAMBDA left :
         IF left.err THEN left ELSE writeRange(left, ws, (lo + hi) \div 2 + 1, hi))

\* `return b.Flush()`
flushCall(w) ==
  IF w.err THEN w
  ELSE Strict(bufFlush(w), LAMBDA x : [x EXCEPT !.err = x.werr])

(***************************************************************************)
(* Inputs of the selector: up to MaxRuns runs of one byte repeated.        *)
(***************************************************************************)
MaxRuns == 3
SelRuns ==
  {<<97, 1>>, <<97, 5>>, <<97, 78>>, <<TAB, 1>>, <<LF, 1>>, <<CR, 1>>, <<128, 1>>, <<128, 5>>}

Repeat(b, n) == [i \in 1..n |-> b]

RECURSIVE Expand(_)
Expand(runs) ==
  IF runs = <<>> THEN <<>> ELSE Repeat(Head(runs)[1], Head(runs)[2]) \o Expand(Tail(runs))

RunSeqs == UNION {[1..n -> SelRuns] : n \in 0..MaxRuns}

EncIdle ==
  /\ parts = <<>>
  /\ parts0 = <<>>
  /\ req = [entry |-> "none", cte |-> TeAuto, useLF |-> FALSE]
  /\ textCte = TeAuto
  /\ useLF = FALSE
  /\ stack = <<>>
  /\ buf = <<>>
  /\ sink = <<>>
  /\ werr = FALSE
  /\ result = "none"
  /\ outs = <<>>
  /\ faults = 0
  /\ failed = FALSE
  /\ sinkWrites = 0
  /\ at = <<>>
  /\ body = <<>>

SelInit ==
  /\ selContent \in {Expand(r) : r \in RunSeqs}
  /\ selQuote \in BOOLEAN
  /\ selResult = None
  /\ EncIdle

Select ==
  /\ selResult = None
  /\ selResult' = selectTransferEncoding(selContent, selQuote)
  /\ UNCHANGED <<selContent, selQuote, encVars>>

SelNext == Select

SpecSelect == SelInit /\ [][SelNext]_vars

(***************************************************************************)
(* The encoder as a state machine.  A frame is one running EncodeCustom:   *)
(*   p      the part                                                       *)
(*   pc     "enter" (44), "header" (60), "content" (72), "fill" (330),     *)
(*          "lines" (342), "children" (83), "loop" (97), "wait" (110, the  *)
(*          child runs), "ret" (110, the child returned), "close" (115)    *)
(*   cte    the transfer encoding setupMIMEHeaders returned                *)
(*   c      the child being encoded, 0 for nil                             *)
(*   chunk  encodeContentFromReader's chunk[:n]                            *)
(*   err    the error the child returned                                   *)
(***************************************************************************)
Root == 1

Top == stack[Len(stack)]

Frame(p) == [p |-> p, pc |-> "enter", cte |-> Te7Bit, c |-> 0, chunk |-> <<>>, err |-> FALSE]

\* all the bytes the bufio.Writer has accepted, in order
Out == sink \o buf

W0 ==
  [buf |-> buf, sink |-> sink, werr |-> werr, sinkWrites |-> sinkWrites,
   err |-> FALSE, failAt |-> 0]

\* the writes ws, then b.Flush() when flush, the failAt-th sink write failing
Run(ws, flush, failAt) ==
  Strict(writeRange([W0 EXCEPT !.failAt = failAt], ws, 1, Len(ws)), LAMBDA w :
    IF flush THEN flushCall(w) ELSE w)

\* which sink write of a step may fail
FailChoices(ws, flush) ==
  IF faults > 0 THEN 0..(Run(ws, flush, 0).sinkWrites - sinkWrites) ELSE {0}

\* every way the writes ws (and the flush) can go
Runs(ws, flush) == {Run(ws, flush, k) : k \in FailChoices(ws, flush)}

NoSpan == [start |-> -1, body |-> -1, end |-> -1]

\* One step of the top frame.  kind is "go" (continue as frame f), "call"
\* (continue as frame f and call EncodeCustom on the child f.c), "ret" (the
\* frame returns what the writer returned), "readfail" (a source read failed:
\* return err) or "childerr" (the child's error is returned).  A writer error
\* makes every kind a return of that error.
Step(w, kind, f, at1, body1) ==
  LET fault == w.err \/ kind = "readfail"
      returns == fault \/ kind \in {"ret", "childerr"}
      error == fault \/ kind = "childerr"
      res == IF error THEN "err" ELSE "ok"
      n == Len(stack)
  IN  /\ buf' = w.buf
      /\ sink' = w.sink
      /\ werr' = w.werr
      /\ sinkWrites' = w.sinkWrites
      /\ failed' = (failed \/ fault)
      /\ faults' = IF fault THEN faults - 1 ELSE faults
      /\ body' = body1
      /\ at' = IF returns
               THEN [at1 EXCEPT ![Top.p].end = Len(w.sink) + Len(w.buf)]
               ELSE at1
      /\ IF ~returns
         THEN /\ stack' = IF kind = "call"
                          THEN Append([stack EXCEPT ![n] = f], Frame(f.c))
                          ELSE [stack EXCEPT ![n] = f]
              /\ UNCHANGED <<result, outs>>
         ELSE IF n = 1
         THEN /\ stack' = <<>>
              /\ result' = res
              /\ outs' = Append(outs, [res |-> res, bytes |-> w.sink])
         ELSE /\ stack' = [SubSeq(stack, 1, n - 1) EXCEPT
                             ![n - 1] = [@ EXCEPT !.pc = "ret", !.err = error]]
              /\ UNCHANGED <<result, outs>>

(***************************************************************************)
(* The content source (io.Reader): src is what it has not delivered yet,   *)
(* readSizes the sizes of its short reads.  A Read into a buffer with room *)
(* bytes free delivers some of the unread bytes with a nil error (a short  *)
(* read, or as many as fit), or the last unread bytes (possibly none)      *)
(* together with io.EOF, or fails.                                         *)
(***************************************************************************)
ReadCounts(sizes, avail, room) ==
  {k \in sizes \cup {Min(avail, room)} : 1 <= k /\ k <= Min(avail, room)}

ReadOutcomes(p, room) ==
  {[n |-> k, err |-> "nil"] : k \in ReadCounts(p.readSizes, Len(p.src), room)}
    \cup (IF Len(p.src) <= room THEN {[n |-> Len(p.src), err |-> "EOF"]} ELSE {})
    \cup (IF faults > 0 THEN {[n |-> 0, err |-> "fail"]} ELSE {})

(***************************************************************************)
(* The entry points                                                        *)
(***************************************************************************)
Idle == stack = <<>>

MaxCalls == 2

\* EncodeCustom(writer, textCte, useLF): lines 44-45
Begin(cte, lf) ==
  /\ Idle
  /\ Len(outs) < MaxCalls
  /\ textCte' = cte
  /\ useLF' = lf
  /\ stack' = <<Frame(Root)>>
  /\ buf' = <<>>
  /\ sink' = <<>>
  /\ werr' = FALSE
  /\ result' = "none"
  /\ failed' = FALSE
  /\ sinkWrites' = 0
  /\ at' = [i \in DOMAIN parts |-> NoSpan]
  /\ body' = [i \in DOMAIN parts |-> <<>>]
  /\ UNCHANGED <<parts, parts0, req, outs, faults, selVars>>

CallEncodeCustom ==
  /\ req.entry = "EncodeCustom"
  /\ Begin(req.cte, req.useLF)

\* lines 132-134
CallEncodeUsingCte ==
  /\ req.entry = "EncodeUsingCte"
  /\ Begin(req.cte, TRUE)

\* lines 137-139
CallEncode ==
  /\ req.entry = "Encode"
  /\ Begin(TeAuto, TRUE)

(***************************************************************************)
(* EncodeCustom                                                            *)
(***************************************************************************)
\* lines 46-58: the first Read of a content source, then setupMIMEHeaders
Enter ==
  /\ ~Idle
  /\ Top.pc = "enter"
  /\ \E r \in IF parts[Top.p].hasReader
              THEN ReadOutcomes(parts[Top.p], readChunkSize)
              ELSE {[n |-> 0, err |-> "none"]} :
       IF r.err = "fail"
       THEN /\ parts' = [parts EXCEPT ![Top.p].Content = Repeat(0, readChunkSize)]
            /\ Step(W0, "readfail", Top, at, body)
       ELSE \E s \in {setupMIMEHeaders(
                        IF r.err = "none"
                        THEN parts[Top.p]
                        ELSE [parts[Top.p] EXCEPT
                                !.Content = SubSeq(parts[Top.p].src, 1, r.n),
                                !.src = From(parts[Top.p].src, r.n + 1)],
                        textCte, Top.p)} :
              /\ parts' = [parts EXCEPT ![Top.p] = s.part]
              /\ Step(W0, "go", [Top EXCEPT !.pc = "header", !.cte = s.cte], at, body)
  /\ UNCHANGED <<parts0, req, textCte, useLF, selVars>>

\* lines 60-70: encodeHeader, then the two line feeds of LF mode
EncodeHeader ==
  /\ ~Idle
  /\ Top.pc = "header"
  /\ \E ws \in {encodeHeader(parts[Top.p].Header, useLF, useLF)
                   \o (IF useLF THEN <<nlnl>> ELSE <<>>)} :
       \E w \in Runs(ws, FALSE) :
         Step(w, "go", [Top EXCEPT !.pc = "content"],
              [at EXCEPT ![Top.p].start = Len(Out)], body)
  /\ UNCHANGED <<parts, parts0, req, textCte, useLF, selVars>>

\* lines 72-81, with encodeContent up to its first Read (lines 257-326)
Content ==
  /\ ~Idle
  /\ Top.pc = "content"
  /\ LET id == Top.p
         p == parts[id]
         sep == IF useLF THEN <<>> ELSE <<crnl>>
     IN  IF Len(p.Content) = 0
         THEN Step(W0, "go", [Top EXCEPT !.pc = "children"], at, body)
         ELSE IF p.hasReader
         THEN \E w \in Runs(sep, FALSE) :
                Step(w, "go", [Top EXCEPT !.pc = "fill", !.chunk = p.Content],
                     [at EXCEPT ![id].body = Len(Out) + Len(Concat(sep))], body)
         ELSE \E ws \in {encodeContent(p, Top.cte, useLF)} :
                \E w \in Runs(sep \o ws, FALSE) :
                  Step(w, "go", [Top EXCEPT !.pc = "children"],
                       [at EXCEPT ![id].body = Len(Out) + Len(Concat(sep))],
                       [body EXCEPT ![id] = Concat(ws)])
  /\ UNCHANGED <<parts, parts0, req, textCte, useLF, selVars>>

\* lines 330-340: one Read into chunk[n:]
ReadMore ==
  /\ ~Idle
  /\ Top.pc = "fill"
  /\ Len(Top.chunk) < readChunkSize
  /\ LET id == Top.p
         p == parts[id]
     IN  \E r \in ReadOutcomes(p, readChunkSize - Len(Top.chunk)) :
           /\ parts' = [parts EXCEPT ![id].src = From(p.src, r.n + 1)]
           /\ IF r.err = "fail"
              THEN Step(W0, "readfail", Top, at, body)
              ELSE IF r.err = "EOF"
              THEN Step(W0, "go", [Top EXCEPT !.pc = "lines"], at, body)
              ELSE Step(W0, "go", [Top EXCEPT !.chunk = @ \o SubSeq(p.src, 1, r.n)],
                        at, body)
  /\ UNCHANGED <<parts0, req, textCte, useLF, selVars>>

\* lines 342-368: the chunk's lines, then the next chunk or the end
EmitLines ==
  /\ ~Idle
  /\ Top.pc = "lines" \/ (Top.pc = "fill" /\ Len(Top.chunk) = readChunkSize)
  /\ \E ws \in {chunkWrites(Top.chunk, useLF)} :
       \E w \in Runs(ws, FALSE) :
         Step(w, "go",
              [Top EXCEPT !.pc = IF Len(Top.chunk) < readChunkSize
                                 THEN "children" ELSE "fill",
                          !.chunk = <<>>],
              at, [body EXCEPT ![Top.p] = @ \o Concat(ws)])
  /\ UNCHANGED <<parts, parts0, req, textCte, useLF, selVars>>

\* lines 83-85: a part without children
LeafReturn ==
  /\ ~Idle
  /\ Top.pc = "children"
  /\ parts[Top.p].FirstChild = 0
  /\ \E w \in Runs(<<>>, TRUE) : Step(w, "ret", Top, at, body)
  /\ UNCHANGED <<parts, parts0, req, textCte, useLF, selVars>>

\* lines 86-110: the marker before a child, then the call on the child
OpenChild ==
  /\ ~Idle
  /\ \/ Top.pc = "children" /\ parts[Top.p].FirstChild # 0
     \/ Top.pc = "loop"
  /\ LET id == Top.p
         c == IF Top.pc = "children" THEN parts[id].FirstChild ELSE Top.c
         at1 == IF at[id].body = -1
                THEN [at EXCEPT ![id].body = Len(Out) + Len(lineEnd(useLF))]
                ELSE at
     IN  \E w \in Runs(<<marker(parts[id].Boundary, useLF), lineEnd(useLF)>>, FALSE) :
           Step(w, "call", [Top EXCEPT !.pc = "wait", !.c = c], at1, body)
  /\ UNCHANGED <<parts, parts0, req, textCte, useLF, selVars>>

\* the child's error dropped
AfterChild_IgnoresError ==
  /\ ~Idle
  /\ Top.pc = "ret"
  /\ LET next == parts[Top.c].NextSibling
     IN  IF next # 0
         THEN Step(W0, "go", [Top EXCEPT !.pc = "loop", !.c = next], at, body)
         ELSE Step(W0, "go", [Top EXCEPT !.pc = "close", !.c = 0], at, body)
  /\ UNCHANGED <<parts, parts0, req, textCte, useLF, selVars>>

\* lines 110-114: the child returned
AfterChild ==
  /\ ~Idle
  /\ Top.pc = "ret"
  /\ LET next == parts[Top.c].NextSibling
     IN  IF Top.err
         THEN Step(W0, "childerr", Top, at, body)
         ELSE IF next # 0
         THEN Step(W0, "go", [Top EXCEPT !.pc = "loop", !.c = next], at, body)
         ELSE Step(W0, "go", [Top EXCEPT !.pc = "close", !.c = 0], at, body)
  /\ UNCHANGED <<parts, parts0, req, textCte, useLF, selVars>>

\* lines 115-127: the closing marker, then b.Flush()
CloseBoundary ==
  /\ ~Idle
  /\ Top.pc = "close"
  /\ \E w \in Runs(<<endMarker(parts[Top.p].Boundary, useLF), lineEnd(useLF)>>, TRUE) :
       Step(w, "ret", Top, at, body)
  /\ UNCHANGED <<parts, parts0, req, textCte, useLF, selVars>>

(***************************************************************************)
(* Parts as constructed                                                    *)
(***************************************************************************)
NewPart ==
  [Header |-> <<>>, Content |-> <<>>, hasReader |-> FALSE, src |-> <<>>,
   readSizes |-> {}, parser |-> "nil", ContentType |-> <<>>, ContentTypeParams |-> <<>>,
   Charset |-> <<>>, Disposition |-> <<>>, FileName |-> <<>>, FileModDate |-> <<>>,
   ContentID |-> <<>>, Boundary |-> <<>>, FirstChild |-> 0, NextSibling |-> 0]

\* "a"
textA == <<97>>
\* "aaaaaaaaa" and one byte 0xE9: quoted-printable under TeAuto
textQuoted == Repeat(97, 9) \o <<233>>
\* three bytes outside ASCII: base64 under TeAuto
textBinary == <<128, 255, 0>>
\* "f.txt"
fileTxt == <<102, 46, 116, 120, 116>>
\* "hi"
subjectHi == <<104, 105>>

WithHeader(p, k, v) == [p EXCEPT !.Header = HeaderSet(@, k, v)]

LeafHeaderOnly == WithHeader(NewPart, hnSubject, subjectHi)
LeafText == [NewPart EXCEPT !.Content = textA, !.ContentType = ctTextPlain]
LeafBinary ==
  [NewPart EXCEPT !.Content = textBinary, !.ContentType = ctOctetStream,
                  !.Disposition = cdAttachment, !.FileName = fileTxt,
                  !.FileModDate = sampleModDate, !.ContentID = textA]
\* the short reads of a source that delivers a few bytes, or about a line, at a time
ReadSizes == {1, 2, 3, 56, 57, 58}

WithReader(p, src, sizes) ==
  [p EXCEPT !.hasReader = TRUE, !.src = src, !.readSizes = sizes]

LeafReader ==
  WithReader([NewPart EXCEPT !.ContentType = ctOctetStream], textBinary, ReadSizes)

FewLeafProfiles == {LeafHeaderOnly, LeafText, LeafReader}

\* a multipart part: with or without a preamble, its boundary set or left empty
ParentProfiles ==
  {[NewPart EXCEPT !.ContentType = ctMultipartMixed, !.Content = c, !.Boundary = b] :
     c \in {<<>>, textA}, b \in {<<>>, <<98>>}}

\* its boundary set and no preamble, or a preamble and no boundary
FewParentProfiles ==
  {[NewPart EXCEPT !.ContentType = ctMultipartMixed, !.Boundary = <<98>>],
   [NewPart EXCEPT !.ContentType = ctMultipartMixed, !.Content = textA]}

\* the boundary a caller sets on part id: "b" and the id's digit
WithTree(p, id, first, next) ==
  [p EXCEPT !.FirstChild = first, !.NextSibling = next,
            !.Boundary = IF @ = <<>> THEN <<>> ELSE @ \o <<48 + id>>]

\* the part trees: a leaf; a root with one child; a root with two children;
\* a root whose first child is a multipart with one child, then a leaf
Trees ==
  {<<WithTree(a, 1, 0, 0)>> : a \in FewLeafProfiles}
  \cup {<<WithTree(r, 1, 2, 0), WithTree(a, 2, 0, 0)>> :
          r \in ParentProfiles, a \in {LeafText, LeafBinary, LeafReader}}
  \cup {<<WithTree(r, 1, 2, 0), WithTree(a, 2, 0, 3), WithTree(b, 3, 0, 0)>> :
          r \in FewParentProfiles, a \in FewLeafProfiles, b \in {LeafText, LeafReader}}
  \cup {<<WithTree(r, 1, 2, 0), WithTree(m, 2, 3, 4), WithTree(a, 3, 0, 0),
          WithTree(b, 4, 0, 0)>> :
          r \in FewParentProfiles, m \in FewParentProfiles,
          a \in {LeafText, LeafReader}, b \in {LeafText}}

Requests ==
  {[entry |-> "Encode", cte |-> TeAuto, useLF |-> FALSE],
   [entry |-> "EncodeUsingCte", cte |-> TeQuoted, useLF |-> FALSE],
   [entry |-> "EncodeCustom", cte |-> TeAuto, useLF |-> FALSE],
   [entry |-> "EncodeCustom", cte |-> TeBase64, useLF |-> TRUE]}

MaxFaults == 1

SelIdle ==
  /\ selContent = <<>>
  /\ selQuote = FALSE
  /\ selResult = None

EncInit(trees, requests, maxFaults) ==
  /\ parts \in trees
  /\ parts0 = parts
  /\ req \in requests
  /\ faults \in 0..maxFaults
  /\ textCte = TeAuto
  /\ useLF = FALSE
  /\ stack = <<>>
  /\ buf = <<>>
  /\ sink = <<>>
  /\ werr = FALSE
  /\ result = "none"
  /\ outs = <<>>
  /\ failed = FALSE
  /\ sinkWrites = 0
  /\ at = [i \in DOMAIN parts |-> NoSpan]
  /\ body = [i \in DOMAIN parts |-> <<>>]
  /\ SelIdle

Init == EncInit(Trees, Requests, MaxFaults)

Next ==
  \/ CallEncode
  \/ CallEncodeUsingCte
  \/ CallEncodeCustom
  \/ Enter
  \/ EncodeHeader
  \/ Content
  \/ ReadMore
  \/ EmitLines
  \/ LeafReturn
  \/ OpenChild
  \/ AfterChild
  \/ CloseBoundary

Spec == Init /\ [][Next]_vars

(***************************************************************************)
(* One part without children, over its fields, the requests and the ways   *)
(* its content source delivers                                             *)
(***************************************************************************)
\* 79 bytes "a": one line longer than 78
textLongLine == Repeat(97, 79)
\* 58 bytes: one base64 line of 57 and one byte more
textTwoLines == [i \in 1..58 |-> 255 - i]
\* more than the bufio.Writer holds once base64-encoded
textBig == [i \in 1..3100 |-> (7 * i) % 256]
\* one chunk of the streaming encoder, and 58 bytes more
textChunks == [i \in 1..(readChunkSize + 58) |-> (11 * i) % 256]

PartContents == {<<>>, textA, textQuoted, textBinary, textLongLine}

PartHeaders == {<<>>, HeaderSet(<<>>, hnContentEncoding, cteBase64)}

BufferedParts ==
  {[NewPart EXCEPT !.Content = c, !.parser = ps, !.ContentType = ct, !.Header = h] :
     c \in PartContents, ps \in {"nil", "parsed", "raw"},
     ct \in {<<>>, ctTextPlain, ctOctetStream}, h \in PartHeaders}

StreamedParts ==
  {WithReader([NewPart EXCEPT !.parser = ps, !.ContentType = ct, !.Header = h],
              src, ReadSizes) :
     src \in {<<>>, textA, textBinary}, ps \in {"nil", "raw"},
     ct \in {ctTextPlain, ctOctetStream}, h \in PartHeaders}

\* content that fills the bufio.Writer; a source that delivers a byte, or a
\* base64 line, at a time; a source that delivers half a chunk at a time
BigParts ==
  {[NewPart EXCEPT !.Content = textBig, !.ContentType = ctOctetStream],
   WithReader([NewPart EXCEPT !.ContentType = ctOctetStream], textTwoLines,
              {1, base64DecodedLineLen}),
   WithReader([NewPart EXCEPT !.ContentType = ctOctetStream], textChunks,
              {readChunkSize \div 2})}

PartTrees ==
  {<<p>> : p \in BufferedParts \cup StreamedParts \cup BigParts
                  \cup {LeafHeaderOnly, LeafBinary}}

PartRequests ==
  {[entry |-> "Encode", cte |-> TeAuto, useLF |-> FALSE],
   [entry |-> "EncodeUsingCte", cte |-> TeQuoted, useLF |-> FALSE],
   [entry |-> "EncodeUsingCte", cte |-> TeBase64, useLF |-> FALSE],
   [entry |-> "EncodeCustom", cte |-> TeAuto, useLF |-> FALSE],
   [entry |-> "EncodeCustom", cte |-> TeAuto, useLF |-> TRUE],
   [entry |-> "EncodeCustom", cte |-> Te7Bit, useLF |-> FALSE],
   [entry |-> "EncodeCustom", cte |-> TeQuoted, useLF |-> TRUE],
   [entry |-> "EncodeCustom", cte |-> TeBase64, useLF |-> FALSE]}

PartInit == EncInit(PartTrees, PartRequests, MaxFaults)

PartNext ==
  \/ CallEncode
  \/ CallEncodeUsingCte
  \/ CallEncodeCustom
  \/ Enter
  \/ EncodeHeader
  \/ Content
  \/ ReadMore
  \/ EmitLines
  \/ LeafReturn

SpecPart == PartInit /\ [][PartNext]_vars

(***************************************************************************)
(* What a finished call wrote                                              *)
(***************************************************************************)
Finished == Idle /\ result = "ok"

FirstCallFinished == Finished /\ Len(outs) = 1

\* the bytes of the output after offset lo, up to offset hi
Slice(lo, hi) == SubSeq(sink, lo + 1, hi)

\* how often pat occurs in s
Occurrences(pat, s) ==
  Cardinality({i \in 0..(Len(s) - Len(pat)) : SubSeq(s, i + 1, i + Len(pat)) = pat})

RECURSIVE Siblings(_)
Siblings(c) == IF c = 0 THEN <<>> ELSE <<c>> \o Siblings(parts[c].NextSibling)

Children(p) == Siblings(parts[p].FirstChild)

(***************************************************************************)
(* C1                                                                      *)
(***************************************************************************)
\* C1: Encode and EncodeUsingCte use CRLF line endings: in what they write,
\* every line feed (header, boundary and base64 line terminators; the
\* contents here hold none) follows a carriage return, as in the output of
\* EncodeCustom with useLF = false.
C1_ConvenienceEntryPointsWriteCRLF ==
  (Finished /\ req.entry \in {"Encode", "EncodeUsingCte"}) =>
    \A i \in 1..Len(sink) : sink[i] = LF => (i > 1 /\ sink[i - 1] = CR)

(***************************************************************************)
(* C2                                                                      *)
(***************************************************************************)
\* C2: the body written for a part backed by a content source is, however
\* the source delivered its bytes, the base64 body of a buffered part holding
\* the same bytes, in the same line-ending mode.
C2_StreamedEqualsBuffered ==
  (FirstCallFinished /\ parts0[Root].hasReader /\ Len(parts0[Root].src) > 0) =>
    /\ at[Root].body # -1
    /\ Slice(at[Root].body, Len(sink)) = Concat(base64Writes(parts0[Root].src, useLF))

(***************************************************************************)
(* C3                                                                      *)
(***************************************************************************)
BinCount(content, k, quoteLineBreaks) ==
  Cardinality({i \in 1..k : IsCounted(content[i], quoteLineBreaks)})

ReachesTwentyPercent(content, quoteLineBreaks) ==
  \E k \in 1..Len(content) :
    BinCount(content, k, quoteLineBreaks) * 100 >= 20 * Len(content)

\* C3: for a non-empty input the selector answers base64 exactly when, at some
\* prefix of the scan, the counted binary bytes are at least 20% of the input
\* length (count * 100 >= 20 * length).
C3_Base64IffTwentyPercent ==
  (selResult # None /\ Len(selContent) > 0) =>
    ((selResult = TeBase64) <=> ReachesTwentyPercent(selContent, selQuote))

(***************************************************************************)
(* C4                                                                      *)
(***************************************************************************)
NoBinaryByte(content) ==
  \A i \in 1..Len(content) :
    \/ (SP <= content[i] /\ content[i] <= TILDE)
    \/ content[i] \in {TAB, CR, LF}

\* no 79 consecutive bytes without a line break
NoLongLine(content) ==
  \A i \in 1..(Len(content) - 78) :
    \E k \in i..(i + 78) : content[k] \in {CR, LF}

\* C4: in body mode (quoteLineBreaks = FALSE) the selector answers 7bit exactly
\* when the input has no byte outside 0x20-0x7E other than tab, CR and LF and
\* no run between line breaks longer than 78 bytes; the empty input gives 7bit.
C4_SevenBitIffClean ==
  (selResult # None /\ ~selQuote) =>
    ((selResult = Te7Bit) <=> (NoBinaryByte(selContent) /\ NoLongLine(selContent)))

C4_Witness ==
  /\ selResult = Te7Bit
  /\ ~selQuote
  /\ Len(selContent) > 78
  /\ \E i \in 1..Len(selContent) : IsLineBreak(selContent[i])

(***************************************************************************)
(* C5                                                                      *)
(***************************************************************************)
\* "--boundary" and the terminator
OpeningMarker(p) == <<45, 45>> \o parts[p].Boundary \o lineEnd(useLF)

\* "--boundary--" and the terminator
ClosingMarker(p) == <<45, 45>> \o parts[p].Boundary \o <<45, 45>> \o lineEnd(useLF)

DistinctBoundaries ==
  \A p, q \in DOMAIN parts :
    (p # q /\ parts[p].FirstChild # 0 /\ parts[q].FirstChild # 0) =>
      parts[p].Boundary # parts[q].Boundary

\* the markers of part p, which has the children cs
MarkersOf(p, cs) ==
  /\ \A i \in 1..Len(cs) :
       /\ at[cs[i]].start >= Len(OpeningMarker(p))
       /\ Slice(at[cs[i]].start - Len(OpeningMarker(p)), at[cs[i]].start) = OpeningMarker(p)
       /\ at[p].start <= at[cs[i]].start - Len(OpeningMarker(p))
       /\ at[cs[i]].end <= at[p].end - Len(ClosingMarker(p))
  /\ \A i \in 1..(Len(cs) - 1) :
       Slice(at[cs[i]].end, at[cs[i + 1]].start) = lineEnd(useLF) \o OpeningMarker(p)
  /\ Slice(at[cs[Len(cs)]].end, at[p].end) = lineEnd(useLF) \o ClosingMarker(p)
  /\ Occurrences(<<45, 45>> \o parts[p].Boundary, sink) = Len(cs) + 1
  /\ Occurrences(ClosingMarker(p), sink) = 1

\* C5: in the output of a successful call on a tree with pairwise distinct
\* boundaries, a part with N >= 1 children has exactly N opening markers, one
\* ending where each child's output starts, in sibling order, and exactly one
\* closing marker, which follows the last child's output and ends the part's
\* output; a part without children writes no marker; and the markers of a
\* nested multipart lie inside its own output, between its parent's opening
\* marker for it and its parent's next marker.
C5_MarkersCountedAndNested ==
  (Finished /\ DistinctBoundaries) =>
    /\ \A p \in DOMAIN parts :
         IF parts[p].FirstChild # 0
         THEN MarkersOf(p, Children(p))
         ELSE Occurrences(<<45, 45>>, Slice(at[p].start, at[p].end)) = 0
    /\ Occurrences(<<45, 45>>, sink) =
         2 * Cardinality({p \in DOMAIN parts : parts[p].FirstChild # 0})
           + Cardinality({p \in DOMAIN parts : p # Root})

C5_Witness ==
  /\ Finished
  /\ DistinctBoundaries
  /\ Len(parts) = 4
  /\ parts[2].FirstChild = 3
  /\ Children(Root) = <<2, 4>>

(***************************************************************************)
(* C6                                                                      *)
(***************************************************************************)
\* the header lines, each with its terminator
HeaderBlock(p) == Concat(encodeHeader(parts[p].Header, useLF, FALSE))

\* C6: in both modes (as passed to EncodeCustom) the output of a part
\* without children is its header block alone when its content is empty, and
\* otherwise its header block, one blank line, and then directly the body.
C6_OneBlankLineOrNone ==
  (Finished /\ req.entry = "EncodeCustom") =>
    IF Len(parts[Root].Content) > 0
    THEN /\ at[Root].body # -1
         /\ Slice(0, at[Root].body) = HeaderBlock(Root) \o lineEnd(useLF)
    ELSE sink = HeaderBlock(Root)

(***************************************************************************)
(* C7                                                                      *)
(***************************************************************************)
\* C7: the body written for a raw-passthrough part with non-empty content is
\* exactly its content bytes, whether they are held in the buffer or supplied
\* by a content source.
C7_RawPassthroughUnmodified ==
  (FirstCallFinished /\ parts0[Root].parser = "raw"
     /\ Len(parts0[Root].Content \o parts0[Root].src) > 0) =>
    /\ at[Root].body # -1
    /\ Slice(at[Root].body, Len(sink)) = parts0[Root].Content \o parts0[Root].src

(***************************************************************************)
(* C8                                                                      *)
(***************************************************************************)
NoContentSource == \A p \in DOMAIN parts0 : ~parts0[p].hasReader

C9_FailFast ==
  /\ []((Idle /\ failed) => result = "err")
  /\ [][(failed /\ failed') =>
          /\ Len(stack') < Len(stack)
          /\ sinkWrites' = sinkWrites
          /\ sink' = sink
          /\ buf' = buf
          /\ \A p \in DOMAIN at : at[p].start = -1 => at'[p].start = -1]_vars

\* the first child failed; its sibling was never started
C9_Witness ==
  /\ Idle
  /\ failed
  /\ result = "err"
  /\ Len(parts) = 3
  /\ at[2].start # -1
  /\ at[3].start = -1

(***************************************************************************)
(* C10                                                                     *)
(***************************************************************************)
Finalized == ~Idle /\ Len(outs) = 0 /\ Top.p = Root /\ Top.pc # "enter"

EncodingName(cte) == IF cte = TeBase64 THEN cteBase64 ELSE cteQuotedPrintable

\* the header of the part carries the field with exactly the value v
CarriesEncoding(v) ==
  /\ HeaderHas(parts[Root].Header, hnContentEncoding)
  /\ parts[Root].Header[hnContentEncoding] = <<v>>

\* a field the caller's header carried and finalization does not delete
KeptEncoding ==
  /\ HeaderHas(parts0[Root].Header, hnContentEncoding)
  /\ parts0[Root].parser \in {"nil", "raw"}

====
